---- MODULE Spec2Model ----
(***************************************************************************)
(* Data-resolution and aggregation pipeline of frontend/static/app.js: the *)
(* Source Resolver (loadScenarioList), the Scenario Data Loader            *)
(* (loadScenarioData), the Comparison Aggregator (loadComparisonData), the *)
(* sub-range view and daily rollup (getWindowedRows, aggregateDaily), the  *)
(* cost waterfall (renderCostBreakdown) and the window controls, as one    *)
(* state machine over the script's globals.                                *)
(***************************************************************************)
EXTENDS Integers, Sequences, FiniteSets, TLC

VARIABLES
    pc,                     \* position of main(): base, index, api, list, loading, done, failed
    rows,                   \* local `rows` of loadScenarioListFromStaticFiles
    scenarios,              \* let scenarios
    currentScenario,        \* let currentScenario ("" models null)
    summary,                \* let summary (NullSummary models null)
    hourly,                 \* let hourly
    costRows,               \* let costRows
    assumptionsRows,        \* let assumptionsRows
    comparisonSummaries,    \* let comparisonSummaries
    comparisonLoadFailures, \* let comparisonLoadFailures
    useApiBackend,          \* let useApiBackend
    selectValue,            \* scenarioSelect.value
    loads,                  \* the calls of loadScenarioData, in order of initiation
    tasks,                  \* the tasks of loadComparisonData, one per catalog entry
    cmpState,               \* idle, running, done
    errorShown,             \* setError has replaced the dashboard
    staticError,            \* _error caught by loadScenarioList ("" while none was)
    payload,                \* local `payload` of loadScenarioList (NoPayload models null)
    windowSize,             \* windowSize.value
    startHour,              \* startHour.value
    windowRows,             \* rows last handed to renderDispatch/renderBattery
    startMax,               \* startHour.max (taken as 0 until updateSliderMax first sets it)
    costUnitMode,           \* costUnitMode.value
    costChart               \* trace last handed to Plotly for costChart

vars == <<pc, rows, scenarios, currentScenario, summary, hourly, costRows,
          assumptionsRows, comparisonSummaries, comparisonLoadFailures,
          useApiBackend, selectValue, loads, tasks, cmpState, errorShown,
          staticError, payload, windowSize, startHour, windowRows, startMax,
          costUnitMode, costChart>>

dataVars == <<currentScenario, summary, hourly, costRows, assumptionsRows>>
cmpVars == <<comparisonSummaries, comparisonLoadFailures, tasks, cmpState>>
winVars == <<windowSize, startHour, windowRows, startMax>>
costVars == <<costUnitMode, costChart>>

----------------------------------------------------------------------------
(* Bounds of the model *)

MaxIndex == 1       \* entries of scenario_index.json
MaxApi == 2         \* entries of the /api/scenarios catalog
MaxSwitches == 1    \* scenario-select change events of a session
MaxHourly == 1      \* rows of an hourly payload of a session
MaxLen == 100       \* rows of the hourly sequence handed to the sub-range view
MaxWindow == 10     \* largest window size
MaxStart == 100     \* largest start offset
MaxRows == 4        \* descriptors handed to the dedup step
MaxCatalog == 5     \* entries of the catalog handed to the comparison fan-out
MaxDaily == 48      \* rows handed to the daily rollup
MaxRun == 24        \* rows per calendar day of those rows
MaxDays == 3        \* distinct calendar days of those rows
MaxCostRows == 3    \* rows of the cost breakdown handed to the waterfall
MaxSeries == 3      \* rows of an hourly payload where the window controls are used
MinWindow == 2      \* smallest window size offered there

Ids == {"base", "nf70"}
Min(a, b) == IF a < b THEN a ELSE b
Max(a, b) == IF a > b THEN a ELSE b

SeqsUpTo(S, n) == UNION {[1..k -> S] : k \in 0..n}

----------------------------------------------------------------------------
(* Source Resolver *)

\* String(scenario.id || "").trim() over the raw ids an index document carries
RawIds == {"", " ", "base", "nf70", " nf70 "}
Trim(raw) ==
    CASE raw = " " -> ""
      [] raw = " nf70 " -> "nf70"
      [] OTHER -> raw

\* an entry of indexPayload.scenarios; label "" models a missing label;
\* NullEntry is a null element of the list
NullEntry == [id |-> "null", label |-> "null"]
IndexEntries == [id : RawIds, label : {"", "Custom"}] \cup {NullEntry}

\* throw new Error("No static outputs found.")
NoStaticOutputs == "No static outputs found."

BaseRow == [id |-> "base", label |-> "Base case", source |-> "static_base"]

\* the loop body over indexPayload.scenarios: skip blank ids, label || id
RECURSIVE IndexRows(_)
IndexRows(entries) ==
    IF entries = <<>> THEN <<>>
    ELSE LET scenario == Head(entries)
             id == Trim(scenario.id)
             rest == IndexRows(Tail(entries))
         IN  IF id = "" THEN rest
             ELSE <<[id |-> id,
                     label |-> IF scenario.label = "" THEN id ELSE scenario.label,
                     source |-> "static_index"]>> \o rest

\* Dedup with the last occurrence of an id kept instead of the first
RECURSIVE DedupKeepsLast(_)
DedupKeepsLast(rs) ==
    IF rs = <<>> THEN <<>>
    ELSE LET row == Head(rs)
         IN  IF row.id = "" \/ \E i \in 2..Len(rs) : rs[i].id = row.id
             THEN DedupKeepsLast(Tail(rs))
             ELSE <<row>> \o DedupKeepsLast(Tail(rs))

\* the dedup loop: first occurrence of every non-empty id, in discovery order
RECURSIVE DedupFrom(_, _)
DedupFrom(rs, seen) ==
    IF rs = <<>> THEN <<>>
    ELSE LET row == Head(rs)
         IN  IF row.id = "" \/ row.id \in seen
             THEN DedupFrom(Tail(rs), seen)
             ELSE <<row>> \o DedupFrom(Tail(rs), seen \cup {row.id})

Dedup(rs) == DedupFrom(rs, {})

\* DefaultScenario without the preference for a non-base entry
DefaultScenarioFirst(deduped) == deduped[1].id

\* deduped.find((row) => row.id !== "base")
RECURSIVE FindNonBase(_)
FindNonBase(rs) ==
    IF rs = <<>> THEN ""
    ELSE IF Head(rs).id # "base" THEN Head(rs).id ELSE FindNonBase(Tail(rs))

\* default_scenario: preferred ? preferred.id : deduped[0].id
DefaultScenario(deduped) ==
    LET preferred == FindNonBase(deduped)
    IN  IF preferred # "" THEN preferred ELSE deduped[1].id

----------------------------------------------------------------------------
(* Responses of the two backends *)

\* fetchJson(url, {optional: true}): what a static probe can come back with.
\* "notfound" is a 404, "transport" any other failed fetch or status,
\* "malformed" a body resp.json() rejects, "null" a body that parses to null.
ProbeKinds == {"ok", "null", "notfound", "transport", "malformed"}

\* indexPayload.scenarios where it is an array; a payload without one goes
\* the way of the empty list
IndexLists == SeqsUpTo(IndexEntries, MaxIndex)

\* /api/scenarios: descriptors with unique non-empty ids (section 3 of the
\* interface), default_scenario "" when the payload carries none
ApiEntry(id) == [id |-> id, label |-> IF id = "base" THEN "Base case" ELSE "", source |-> "api"]
ApiCatalogs ==
    {c \in SeqsUpTo({ApiEntry(id) : id \in Ids}, MaxApi) :
        \A i, j \in 1..Len(c) : i # j => c[i].id # c[j].id}
ApiDefaults == Ids \cup {""}

CatalogIds(cat) == {cat[i].id : i \in 1..Len(cat)}

----------------------------------------------------------------------------
(* State of the asynchronous calls *)

Kinds == {"summary", "hourly", "cost", "assumptions"}

\* a call of loadScenarioData: the retrievals of its Promise.all that have
\* resolved so far, whether the assumptions retrieval came back with the []
\* of a missing file, and where the call stands
NewLoad(id) == [id |-> id, state |-> "pending", got |-> {}, absent |-> FALSE]

\* how a fetch comes back: resp.ok with a body that parses, a 404, or any
\* other failure (another status, a failed fetch, a body that does not parse)
Statuses == {"ok", "notfound", "error"}

NoPayload == [default_scenario |-> "", scenarios |-> <<>>]

NullSummary == [load |-> 0, scenario_id |-> ""]

\* the payloads a completed load hands over; load tags the response objects
SummaryPayload(k, reported) == [load |-> k, scenario_id |-> reported]
HourlyPayload(k, n) == [i \in 1..n |-> [load |-> k, hour |-> i]]
CostPayload(k) == <<[load |-> k, cost_usd |-> 1]>>
AssumptionsPayload(k, present) ==
    IF present THEN <<[load |-> k, assumption |-> "a"]>> ELSE <<>>

PendingTask == [status |-> "pending", request |-> 0, scenario_id |-> "", scenario_label |-> ""]
RejectedTask == [status |-> "rejected", request |-> 0, scenario_id |-> "", scenario_label |-> ""]

\* a || b on strings, "" being the falsy one
Or(a, b) == IF a # "" THEN a ELSE b

----------------------------------------------------------------------------
(* Sub-range view *)

\* Array.prototype.slice(start, end) for start, end >= 0
Slice(s, start, end) ==
    LET from == Min(start, Len(s))
        to == Min(end, Len(s))
    IN  IF to <= from THEN <<>> ELSE SubSeq(s, from + 1, to)

\* getWindowedRows with the window size passed as the end of the slice
getWindowedRowsByLength(h, size, start) == Slice(h, start, size)

getWindowedRows(h, size, start) ==
    LET end == Min(Len(h), start + size)
    IN  Slice(h, start, end)

\* updateSliderMax: the value the start slider is left with
updateSliderMax(h, size, start) ==
    LET maxStart == Max(0, Len(h) - size)
    IN  IF start > maxStart THEN maxStart ELSE start

----------------------------------------------------------------------------
(* Daily rollup *)

\* Number(document.getElementById("windowSize").value) === 8784
FullYear == 8784
isFullYearWindowSelected(size) == size = FullYear

DAILY_SUM_KEYS ==
    {"demand_mwh", "gen_solar_mwh", "gen_diesel_mwh", "gen_ccgt_mwh",
     "gen_coal_mwh", "battery_discharge_mwh", "battery_charge_mwh",
     "battery_net_mwh", "unserved_mwh"}

\* String(row.timestamp).slice(0, 10); a timestamp is its sequence of characters
DayKeyLen == 10
DayKey(row) == Slice(row.timestamp, 0, DayKeyLen)

\* Number(row[key] || 0): a member the row does not have counts as 0
NumberOr0(row, key) == IF key \in DOMAIN row THEN row[key] ELSE 0

\* let day = null
NullDay == <<"null">>

\* acc = { timestamp: dayKey, battery_soc_mwh: 0 } with every sum key at 0
NewAcc(dayKey) ==
    [key \in DAILY_SUM_KEYS \cup {"timestamp", "battery_soc_mwh"} |->
        IF key = "timestamp" THEN dayKey ELSE 0]

\* AddRow with the state of charge summed like the flows
AddRowSocSummed(acc, row) ==
    [key \in DOMAIN acc |->
        IF key = "timestamp" THEN acc[key]
        ELSE acc[key] + NumberOr0(row, key)]

\* the second half of the loop body: add the flows, keep the row's state of charge
AddRow(acc, row) ==
    [key \in DOMAIN acc |->
        IF key = "timestamp" THEN acc[key]
        ELSE IF key = "battery_soc_mwh" THEN NumberOr0(row, key)
        ELSE acc[key] + NumberOr0(row, key)]

\* the loop of aggregateDaily over the rows still to come; acc is the last
\* element of grouped
RECURSIVE aggregateDailyFrom(_, _, _)
aggregateDailyFrom(rs, grouped, day) ==
    IF rs = <<>> THEN grouped
    ELSE LET row == Head(rs)
             dayKey == DayKey(row)
             opened == IF dayKey # day THEN Append(grouped, NewAcc(dayKey)) ELSE grouped
             last == Len(opened)
         IN  aggregateDailyFrom(Tail(rs),
                                [opened EXCEPT ![last] = AddRow(opened[last], row)],
                                dayKey)

aggregateDaily(rs) == IF rs = <<>> THEN <<>> ELSE aggregateDailyFrom(rs, <<>>, NullDay)

\* renderWindow: the rows handed to renderDispatch and renderBattery
WindowRows(h, size, start) ==
    IF isFullYearWindowSelected(size)
    THEN aggregateDaily(getWindowedRows(h, size, start))
    ELSE getWindowedRows(h, size, start)

----------------------------------------------------------------------------
(* Cost waterfall. Currency amounts are exact fractions [num, den], den > 0,
   in lowest terms; the rounding of floating point is left out *)

Abs(n) == IF n < 0 THEN 0 - n ELSE n

RECURSIVE GCD(_, _)
GCD(a, b) == IF b = 0 THEN a ELSE GCD(b, a % b)

Rat(n, d) ==
    LET g == GCD(Abs(n), d)
    IN  [num |-> n \div g, den |-> d \div g]

Zero == Rat(0, 1)
Half == Rat(1, 2)
RatAdd(a, b) ==
    LET g == GCD(a.den, b.den)
    IN  Rat((a.num * (b.den \div g)) + (b.num * (a.den \div g)), (a.den \div g) * b.den)
RatMul(a, b) ==
    LET g == GCD(Abs(a.num), b.den)
        h == GCD(Abs(b.num), a.den)
    IN  Rat((a.num \div g) * (b.num \div h), (a.den \div h) * (b.den \div g))
RatAbs(a) == [num |-> Abs(a.num), den |-> a.den]
RatLess(a, b) == (a.num * b.den) < (b.num * a.den)

NoChart == [type |-> "none"]

\* Number(summary.served_energy_mwh || summary.total_demand_mwh || 0)
SummaryNumber(s, key) == IF key \in DOMAIN s THEN s[key] ELSE 0
ServedEnergy(s) ==
    IF SummaryNumber(s, "served_energy_mwh") # 0
    THEN SummaryNumber(s, "served_energy_mwh")
    ELSE SummaryNumber(s, "total_demand_mwh")

\* scale = usePerMwh ? 1 / servedEnergy : 1
UsePerMwh(s, mode) == mode = "per_mwh" /\ ServedEnergy(s) > 0
Scale(s, mode) == IF UsePerMwh(s, mode) THEN Rat(1, ServedEnergy(s)) ELSE Rat(1, 1)

\* Number(row.cost_usd || 0)
CostUsd(row) == IF "cost_usd" \in DOMAIN row THEN row.cost_usd ELSE Zero

\* costRows.some((row) => hasOwnProperty(row, "component"))
hasDetailed(rs) == \E i \in 1..Len(rs) : "component" \in DOMAIN rs[i]

\* grouped[bucket] of the coarse schema
RECURSIVE BucketSum(_, _)
BucketSum(rs, bucket) ==
    IF rs = <<>> THEN Zero
    ELSE LET row == Head(rs)
             rest == BucketSum(Tail(rs), bucket)
         IN  IF "bucket" \in DOMAIN row /\ row.bucket = bucket
             THEN RatAdd(CostUsd(row), rest)
             ELSE rest

\* the three stacked bars of the coarse schema
CoarseChart(rs, scale) ==
    [type |-> "stack",
     x |-> <<<<"Fixed">>, <<"Variable">>, <<"Unserved Penalty">>>>,
     y |-> <<RatMul(BucketSum(rs, "fixed"), scale),
             RatMul(BucketSum(rs, "variable"), scale),
             RatMul(BucketSum(rs, "penalty"), scale)>>]

techOrder == <<"solar", "battery", "diesel", "ccgt", "coal">>
componentOrder == <<"capex_annualized", "fixed_om", "var_om">>
techLabel ==
    [tech \in {"solar", "battery", "diesel", "ccgt", "coal"} |->
        CASE tech = "solar" -> "Solar"
          [] tech = "battery" -> "Battery"
          [] tech = "diesel" -> "Diesel"
          [] tech = "ccgt" -> "CCGT"
          [] tech = "coal" -> "Coal"]
componentLabel ==
    [component \in {"capex_annualized", "fixed_om", "var_om"} |->
        CASE component = "capex_annualized" -> "CAPEX (annualized)"
          [] component = "fixed_om" -> "Fixed O&M"
          [] component = "var_om" -> "Var O&M"]

\* the filter and reduce of valueFor
RECURSIVE valueFor(_, _, _)
valueFor(rs, technology, component) ==
    IF rs = <<>> THEN Zero
    ELSE LET row == Head(rs)
             rest == valueFor(Tail(rs), technology, component)
         IN  IF /\ "technology" \in DOMAIN row /\ row.technology = technology
                /\ "component" \in DOMAIN row /\ row.component = component
             THEN RatAdd(CostUsd(row), rest)
             ELSE rest

\* the filter and reduce of unservedPenalty
RECURSIVE UnservedPenalty(_)
UnservedPenalty(rs) ==
    IF rs = <<>> THEN Zero
    ELSE LET row == Head(rs)
             rest == UnservedPenalty(Tail(rs))
         IN  IF "component" \in DOMAIN row /\ row.component = "unserved_penalty"
             THEN RatAdd(CostUsd(row), rest)
             ELSE rest

\* BelowThreshold with a value of exactly one half dropped too
BelowThresholdInclusive(value) == ~RatLess(Half, RatAbs(value))

\* Math.abs(value) < 0.5
BelowThreshold(value) == RatLess(RatAbs(value), Half)

\* the two nested loops over techOrder and componentOrder, from pair p on;
\* a label is the sequence of its words
RECURSIVE StepsFrom(_, _)
StepsFrom(rs, p) ==
    IF p > Len(techOrder) * Len(componentOrder) THEN <<>>
    ELSE LET tech == techOrder[((p - 1) \div Len(componentOrder)) + 1]
             component == componentOrder[((p - 1) % Len(componentOrder)) + 1]
             value == valueFor(rs, tech, component)
         IN  IF BelowThreshold(value) THEN StepsFrom(rs, p + 1)
             ELSE <<[label |-> <<techLabel[tech], componentLabel[component]>>,
                     value |-> value,
                     technology |-> tech]>> \o StepsFrom(rs, p + 1)

Steps(rs) ==
    StepsFrom(rs, 1) \o
        (IF BelowThreshold(UnservedPenalty(rs)) THEN <<>>
         ELSE <<[label |-> <<"Unserved Penalty">>,
                 value |-> UnservedPenalty(rs),
                 technology |-> "unserved_penalty"]>>)

\* NextRunning with the unscaled value added to the running offset
NextRunningUnscaled(running, step, scale) == RatAdd(running, step.value)

\* running += scaledValue
NextRunning(running, step, scale) == RatAdd(running, RatMul(step.value, scale))

\* the loop that fills x, y and base, and the Total step after it
RECURSIVE WaterfallFrom(_, _, _, _)
WaterfallFrom(steps, scale, running, trace) ==
    IF steps = <<>>
    THEN [type |-> "waterfall",
          x |-> Append(trace.x, <<"Total System Cost">>),
          y |-> Append(trace.y, running),
          base |-> Append(trace.base, Zero)]
    ELSE LET step == Head(steps)
             scaledValue == RatMul(step.value, scale)
         IN  WaterfallFrom(Tail(steps), scale, NextRunning(running, step, scale),
                           [x |-> Append(trace.x, step.label),
                            y |-> Append(trace.y, scaledValue),
                            base |-> Append(trace.base, running)])

\* renderCostBreakdown: the chart it leaves; the colours and hover texts are
\* left out
renderCostBreakdown(chart, s, rs, mode) ==
    IF s = NullSummary THEN chart
    ELSE IF ~hasDetailed(rs) THEN CoarseChart(rs, Scale(s, mode))
    ELSE WaterfallFrom(Steps(rs), Scale(s, mode), Zero,
                       [x |-> <<>>, y |-> <<>>, base |-> <<>>])

----------------------------------------------------------------------------
(* Initial state: the globals as declared, main() about to probe *)

Init ==
    /\ pc = "base"
    /\ rows = <<>>
    /\ scenarios = <<>>
    /\ currentScenario = ""
    /\ summary = NullSummary
    /\ hourly = <<>>
    /\ costRows = <<>>
    /\ assumptionsRows = <<>>
    /\ comparisonSummaries = <<>>
    /\ comparisonLoadFailures = 0
    /\ useApiBackend = FALSE
    /\ selectValue = ""
    /\ loads = <<>>
    /\ tasks = <<>>
    /\ cmpState = "idle"
    /\ errorShown = FALSE
    /\ staticError = ""
    /\ payload = NoPayload
    /\ windowSize = MaxWindow
    /\ startHour = 0
    /\ windowRows = <<>>
    /\ startMax = 0
    /\ costUnitMode = "total"
    /\ costChart = NoChart

----------------------------------------------------------------------------
(* main() and loadScenarioList() *)

\* StaticThrows with a catch that only absorbs "No static outputs found."
\* and lets every other error reach main()
StaticThrowsHard(error) ==
    /\ pc' = IF error = NoStaticOutputs THEN "api" ELSE "failed"
    /\ errorShown' = (error # NoStaticOutputs)
    /\ staticError' = IF error = NoStaticOutputs THEN error ELSE ""
    /\ rows' = <<>>
    /\ UNCHANGED <<scenarios, dataVars, cmpVars, useApiBackend, selectValue,
                   loads, payload, winVars, costVars>>

\* the catch of loadScenarioList: static discovery threw error, ask the API
StaticThrows(error) ==
    /\ pc' = "api"
    /\ staticError' = error
    /\ rows' = <<>>
    /\ UNCHANGED <<scenarios, dataVars, cmpVars, useApiBackend, selectValue,
                   loads, errorShown, payload, winVars, costVars>>

\* the probe of outputs/summary.json resolves
StaticBase(kind) ==
    /\ pc = "base"
    /\ IF kind \in {"transport", "malformed"}
       THEN StaticThrows(kind)
       ELSE /\ rows' = IF kind = "ok" THEN <<BaseRow>> ELSE <<>>
            /\ pc' = "index"
            /\ UNCHANGED <<scenarios, dataVars, cmpVars, useApiBackend,
                           selectValue, loads, errorShown, staticError,
                           payload, winVars, costVars>>

\* the end of loadScenarioListFromStaticFiles: deduplicate what was
\* discovered, throw when nothing is left, else return
\* {default_scenario, scenarios}
StaticFinish(discovered) ==
    LET deduped == Dedup(discovered)
    IN  IF deduped = <<>> THEN StaticThrows(NoStaticOutputs)
        ELSE /\ rows' = discovered
             /\ payload' = [default_scenario |-> DefaultScenario(deduped),
                            scenarios |-> deduped]
             /\ pc' = "list"
             /\ UNCHANGED <<scenarios, dataVars, cmpVars, useApiBackend,
                            selectValue, loads, errorShown, staticError,
                            winVars, costVars>>

\* the probe of scenario_index.json resolves; list is indexPayload.scenarios
\* when it is an array (kind "ok"); the rest of the static discovery follows
StaticIndex(kind, list) ==
    /\ pc = "index"
    /\ LET entries == IF kind = "ok" THEN list ELSE <<>>
           nullEntry == \E i \in 1..Len(entries) : entries[i] = NullEntry
       IN  IF kind \in {"transport", "malformed"} THEN StaticThrows(kind)
           ELSE IF nullEntry THEN StaticThrows("TypeError")
           ELSE StaticFinish(rows \o IndexRows(entries))

\* fetchJson("/api/scenarios") fails: loadScenarioList rejects, main() catches
ApiListFails ==
    /\ pc = "api"
    /\ pc' = "failed"
    /\ errorShown' = TRUE
    /\ staticError' = ""
    /\ UNCHANGED <<rows, scenarios, dataVars, cmpVars, useApiBackend,
                   selectValue, loads, payload, winVars, costVars>>

\* ApiList without `useApiBackend = true`
ApiListStaysStatic(cat, default) ==
    /\ pc = "api"
    /\ payload' = [default_scenario |-> default, scenarios |-> cat]
    /\ staticError' = ""
    /\ pc' = "list"
    /\ UNCHANGED <<rows, scenarios, dataVars, cmpVars, selectValue, loads,
                   errorShown, useApiBackend, winVars, costVars>>

\* fetchJson("/api/scenarios") resolves with {default_scenario, scenarios};
\* cat is <<>> and default "" where the payload has no such member
ApiList(cat, default) ==
    /\ pc = "api"
    /\ payload' = [default_scenario |-> default, scenarios |-> cat]
    /\ useApiBackend' = TRUE
    /\ staticError' = ""
    /\ pc' = "list"
    /\ UNCHANGED <<rows, scenarios, dataVars, cmpVars, selectValue, loads,
                   errorShown, winVars, costVars>>

\* loadScenarioList from `scenarios = payload.scenarios || []` on, with a
\* non-empty catalog, and main() up to its Promise.all: the select is filled,
\* the controls are set up, the first load and the comparison fan-out start
StartSession(cat, default) ==
    LET cur == Or(default, cat[1].id)
    IN  /\ currentScenario' = cur
        /\ selectValue' = IF cur \in CatalogIds(cat) THEN cur ELSE ""
        /\ loads' = <<NewLoad(cur)>>
        /\ tasks' = [i \in 1..Len(cat) |-> PendingTask]
        /\ cmpState' = "running"
        /\ pc' = "loading"
        /\ UNCHANGED <<summary, hourly, costRows, assumptionsRows,
                       comparisonSummaries, comparisonLoadFailures,
                       errorShown, winVars, costVars>>

\* NoScenarios without the throw: main() goes on with an empty catalog
NoScenariosSilent ==
    /\ pc' = "done"
    /\ UNCHANGED <<dataVars, cmpVars, selectValue, loads, errorShown, winVars, costVars>>

\* an empty catalog: loadScenarioList throws, main() catches and shows the error
NoScenarios ==
    /\ pc' = "failed"
    /\ errorShown' = TRUE
    /\ UNCHANGED <<dataVars, cmpVars, selectValue, loads, winVars, costVars>>

\* the rest of loadScenarioList once payload is there
FinishList ==
    /\ pc = "list"
    /\ scenarios' = payload.scenarios
    /\ payload' = NoPayload
    /\ IF payload.scenarios = <<>>
       THEN NoScenarios
       ELSE StartSession(payload.scenarios, payload.default_scenario)
    /\ rows' = <<>>
    /\ UNCHANGED <<useApiBackend, staticError>>

----------------------------------------------------------------------------
(* loadScenarioData() *)

SetLoad(k, state, got) ==
    [loads EXCEPT ![k] = [id |-> loads[k].id, state |-> state, got |-> got,
                          absent |-> loads[k].absent /\ state # "failed"]]

\* one of the four retrievals of the Promise.all of load k resolves; with
\* status "notfound" it is the optional one resolving with []
Resolve(k, kind, status) ==
    /\ loads[k].state = "pending"
    /\ kind \notin loads[k].got
    /\ loads' = [SetLoad(k, "pending", loads[k].got \cup {kind})
                    EXCEPT ![k].absent = (loads[k].absent \/ status = "notfound")]
    /\ UNCHANGED <<pc, rows, scenarios, dataVars, cmpVars, useApiBackend,
                   selectValue, errorShown, staticError, payload, winVars, costVars>>

\* FailLoad with currentScenario assigned before the retrievals are awaited
FailLoadClobbers(k) ==
    /\ loads[k].state = "pending"
    /\ loads[k].got # Kinds
    /\ loads' = SetLoad(k, "failed", {})
    /\ errorShown' = TRUE
    /\ pc' = IF k = 1 THEN "failed" ELSE pc
    /\ currentScenario' = loads[k].id
    /\ UNCHANGED <<rows, scenarios, summary, hourly, costRows, assumptionsRows,
                   cmpVars, useApiBackend, selectValue, staticError, payload,
                   winVars, costVars>>

\* one of the retrievals still out rejects (fetch or parse error): the
\* Promise.all rejects, loadScenarioData rejects, the caller's catch runs
\* setError; for the first load the caller is main()
FailLoad(k) ==
    /\ loads[k].state = "pending"
    /\ loads[k].got # Kinds
    /\ loads' = SetLoad(k, "failed", {})
    /\ errorShown' = TRUE
    /\ pc' = IF k = 1 THEN "failed" ELSE pc
    /\ UNCHANGED <<rows, scenarios, dataVars, cmpVars, useApiBackend,
                   selectValue, staticError, payload, winVars, costVars>>

\* Rejects without the {optional: true} of the assumptions retrieval
RejectsOptionalToo(kind, status) == status # "ok"

\* whether a retrieval of loadScenarioData that comes back with status
\* rejects: fetchJson and fetchCsvRows throw on every failure, except that
\* fetchCsvRows(assumptions_used.csv, {optional: true}) returns [] on a 404
Rejects(kind, status) ==
    /\ status # "ok"
    /\ ~(~useApiBackend /\ kind = "assumptions" /\ status = "notfound")

\* a retrieval of load k comes back
Respond(k, kind, status) ==
    /\ loads[k].state = "pending"
    /\ kind \notin loads[k].got
    /\ IF Rejects(kind, status) THEN FailLoad(k) ELSE Resolve(k, kind, status)

\* the assignments after the Promise.all; reported is the scenario_id of the
\* summary payload ("" when it has none), n the number of hourly rows,
\* present whether the assumptions retrieval brought rows
PublishApi(k, scenarioId, reported, n, present) ==
    /\ currentScenario' = Or(reported, scenarioId)
    /\ summary' = SummaryPayload(k, reported)
    /\ hourly' = HourlyPayload(k, n)
    /\ costRows' = CostPayload(k)
    /\ assumptionsRows' = AssumptionsPayload(k, present)

\* PublishStatic with the cost rows left behind
PublishStaticTorn(k, scenarioId, reported, n, present) ==
    /\ currentScenario' = scenarioId
    /\ summary' = SummaryPayload(k, Or(reported, scenarioId))
    /\ hourly' = HourlyPayload(k, n)
    /\ costRows' = costRows
    /\ assumptionsRows' = AssumptionsPayload(k, present)

PublishStatic(k, scenarioId, reported, n, present) ==
    /\ currentScenario' = scenarioId
    /\ summary' = SummaryPayload(k, Or(reported, scenarioId))
    /\ hourly' = HourlyPayload(k, n)
    /\ costRows' = CostPayload(k)
    /\ assumptionsRows' = AssumptionsPayload(k, present)

Publish(k, reported, n, present) ==
    /\ loads[k].state = "pending"
    /\ loads[k].got = Kinds
    /\ loads[k].absent => ~present
    /\ IF useApiBackend
       THEN PublishApi(k, loads[k].id, reported, n, present)
       ELSE PublishStatic(k, loads[k].id, reported, n, present)
    /\ loads' = SetLoad(k, "published", {})
    /\ UNCHANGED <<pc, rows, scenarios, cmpVars, useApiBackend, selectValue,
                   errorShown, staticError, payload, winVars, costVars>>

\* renderAll(), as far as it changes state: updateSliderMax, renderWindow
RenderAll ==
    /\ startHour' = updateSliderMax(hourly, windowSize, startHour)
    /\ startMax' = Max(0, Len(hourly) - windowSize)
    /\ costChart' = renderCostBreakdown(costChart, summary, costRows, costUnitMode)
    /\ windowRows' = WindowRows(hourly, windowSize, startHour')
    /\ UNCHANGED <<windowSize, costUnitMode>>

\* the change handler resumes after its await and renders; once setError
\* has replaced the dashboard there is nothing left to render into
Render(k) ==
    /\ k > 1
    /\ loads[k].state = "published"
    /\ loads' = SetLoad(k, "rendered", {})
    /\ IF errorShown THEN UNCHANGED <<winVars, costVars>> ELSE RenderAll
    /\ UNCHANGED <<pc, rows, scenarios, dataVars, cmpVars, useApiBackend,
                   selectValue, errorShown, staticError, payload>>

\* main() resumes after Promise.all([loadScenarioData, loadComparisonData])
MainRender ==
    /\ pc = "loading"
    /\ loads[1].state = "published"
    /\ cmpState = "done"
    /\ loads' = SetLoad(1, "rendered", {})
    /\ IF errorShown
       THEN pc' = "failed" /\ UNCHANGED <<winVars, costVars>>
       ELSE pc' = "done" /\ RenderAll
    /\ UNCHANGED <<rows, scenarios, dataVars, cmpVars, useApiBackend,
                   selectValue, errorShown, staticError, payload>>

\* the change listener of scenarioSelect: the user picks another option
\* while the dashboard is up; the handler starts loadScenarioData
Change(id) ==
    /\ pc \in {"loading", "done"}
    /\ ~errorShown
    /\ Len(loads) < 1 + MaxSwitches
    /\ id \in CatalogIds(scenarios)
    /\ id # selectValue
    /\ selectValue' = id
    /\ loads' = Append(loads, NewLoad(id))
    /\ UNCHANGED <<pc, rows, scenarios, dataVars, cmpVars, useApiBackend,
                   errorShown, staticError, payload, winVars, costVars>>

\* a load has published and the renderAll() of its caller is next in the
\* microtask queue: no event handler runs in between
RenderPending ==
    \/ \E k \in 2..Len(loads) : loads[k].state = "published"
    \/ pc = "loading" /\ loads[1].state = "published" /\ cmpState = "done"

\* the change listener of windowSize: updateSliderMax(), renderWindow()
WindowSizeChange(size) ==
    /\ pc \in {"loading", "done"}
    /\ ~errorShown
    /\ ~RenderPending
    /\ size # windowSize
    /\ windowSize' = size
    /\ startMax' = Max(0, Len(hourly) - size)
    /\ startHour' = updateSliderMax(hourly, size, startHour)
    /\ windowRows' = WindowRows(hourly, size, startHour')
    /\ UNCHANGED <<pc, rows, scenarios, dataVars, cmpVars, useApiBackend,
                   selectValue, loads, errorShown, staticError, payload, costVars>>

\* the input listener of startHour: the slider lets the user pick any value
\* from 0 to its max; renderWindow()
StartInput(value) ==
    /\ pc \in {"loading", "done"}
    /\ ~errorShown
    /\ ~RenderPending
    /\ value \in 0..startMax
    /\ value # startHour
    /\ startHour' = value
    /\ windowRows' = WindowRows(hourly, windowSize, value)
    /\ UNCHANGED <<pc, rows, scenarios, dataVars, cmpVars, useApiBackend,
                   selectValue, loads, errorShown, staticError, payload,
                   windowSize, startMax, costVars>>

\* the change listener of costUnitMode
CostModeChange(mode) ==
    /\ pc \in {"loading", "done"}
    /\ ~errorShown
    /\ ~RenderPending
    /\ mode # costUnitMode
    /\ costUnitMode' = mode
    /\ costChart' = renderCostBreakdown(costChart, summary, costRows, mode)
    /\ UNCHANGED <<pc, rows, scenarios, dataVars, cmpVars, useApiBackend,
                   selectValue, loads, errorShown, staticError, payload, winVars>>

----------------------------------------------------------------------------
(* loadComparisonData() *)

\* the row a task returns for catalog entry i; reported is the scenario_id of
\* the payload ("" when it has none)
TaskRowApi(i, row, reported) ==
    [status |-> "fulfilled", request |-> i,
     scenario_id |-> Or(reported, row.id),
     scenario_label |-> Or(row.label, Or(reported, row.id))]

\* TaskRowStatic with the payload's scenario_id preferred, as in API mode
TaskRowStaticReported(i, row, reported) ==
    [status |-> "fulfilled", request |-> i,
     scenario_id |-> Or(reported, row.id),
     scenario_label |-> Or(row.label, row.id)]

TaskRowStatic(i, row, reported) ==
    [status |-> "fulfilled", request |-> i,
     scenario_id |-> row.id,
     scenario_label |-> Or(row.label, row.id)]

TaskResolve(i, reported) ==
    /\ cmpState = "running"
    /\ tasks[i].status = "pending"
    /\ tasks' = [tasks EXCEPT ![i] =
                    IF useApiBackend
                    THEN TaskRowApi(i, scenarios[i], reported)
                    ELSE TaskRowStatic(i, scenarios[i], reported)]
    /\ UNCHANGED <<pc, rows, scenarios, dataVars, comparisonSummaries,
                   comparisonLoadFailures, cmpState, useApiBackend, selectValue,
                   loads, errorShown, staticError, payload, winVars, costVars>>

TaskReject(i) ==
    /\ cmpState = "running"
    /\ tasks[i].status = "pending"
    /\ tasks' = [tasks EXCEPT ![i] = RejectedTask]
    /\ UNCHANGED <<pc, rows, scenarios, dataVars, comparisonSummaries,
                   comparisonLoadFailures, cmpState, useApiBackend, selectValue,
                   loads, errorShown, staticError, payload, winVars, costVars>>

\* Fulfilled without the filter on the status
FulfilledAll(settled) == settled

\* settled.filter(fulfilled).map(value)
RECURSIVE Fulfilled(_)
Fulfilled(settled) ==
    IF settled = <<>> THEN <<>>
    ELSE IF Head(settled).status = "fulfilled"
         THEN <<Head(settled)>> \o Fulfilled(Tail(settled))
         ELSE Fulfilled(Tail(settled))

\* Promise.allSettled resolves: the list and the failure count are assigned
Assemble ==
    /\ cmpState = "running"
    /\ \A i \in 1..Len(tasks) : tasks[i].status # "pending"
    /\ comparisonSummaries' = Fulfilled(tasks)
    /\ comparisonLoadFailures' = Len(tasks) - Len(comparisonSummaries')
    /\ cmpState' = "done"
    /\ UNCHANGED <<pc, rows, scenarios, dataVars, tasks, useApiBackend,
                   selectValue, loads, errorShown, staticError, payload, winVars, costVars>>

----------------------------------------------------------------------------
(* The session *)

Next ==
    \/ \E kind \in ProbeKinds : StaticBase(kind)
    \/ \E kind \in ProbeKinds, list \in IndexLists : StaticIndex(kind, list)
    \/ ApiListFails
    \/ \E cat \in ApiCatalogs, default \in ApiDefaults : ApiList(cat, default)
    \/ FinishList
    \/ \E k \in 1..Len(loads), kind \in Kinds, status \in Statuses : Respond(k, kind, status)
    \/ \E k \in 1..Len(loads), reported \in Ids \cup {""}, n \in 0..MaxHourly,
          present \in BOOLEAN : Publish(k, reported, n, present)
    \/ \E k \in 1..Len(loads) : Render(k)
    \/ MainRender
    \/ \E id \in Ids : Change(id)
    \/ \E i \in 1..Len(tasks), reported \in Ids \cup {""} : TaskResolve(i, reported)
    \/ \E i \in 1..Len(tasks) : TaskReject(i)
    \/ Assemble

Spec == Init /\ [][Next]_vars

----------------------------------------------------------------------------
(* The dedup step on its own: any sequence of discovered descriptors *)

DedupIds == {"", "base", "nf70", "nf80"}
DiscoveredRows == [id : DedupIds, label : {"first", "second"}, source : {"static_index"}]

InitDedup ==
    /\ pc = "dedup"
    /\ rows \in SeqsUpTo(DiscoveredRows, MaxRows)
    /\ scenarios = <<>>
    /\ currentScenario = ""
    /\ summary = NullSummary
    /\ hourly = <<>>
    /\ costRows = <<>>
    /\ assumptionsRows = <<>>
    /\ comparisonSummaries = <<>>
    /\ comparisonLoadFailures = 0
    /\ useApiBackend = FALSE
    /\ selectValue = ""
    /\ loads = <<>>
    /\ tasks = <<>>
    /\ cmpState = "idle"
    /\ errorShown = FALSE
    /\ staticError = ""
    /\ payload = NoPayload
    /\ windowSize = MaxWindow
    /\ startHour = 0
    /\ windowRows = <<>>
    /\ startMax = 0
    /\ costUnitMode = "total"
    /\ costChart = NoChart

DedupStep ==
    /\ pc = "dedup"
    /\ StaticFinish(rows)

NextDedup == DedupStep

SpecDedup == InitDedup /\ [][NextDedup]_vars

----------------------------------------------------------------------------
(* The sub-range view on its own: any sequence, window size and start *)

InitWindow ==
    /\ pc = "window"
    /\ hourly \in {HourlyPayload(1, n) : n \in 0..MaxLen}
    /\ windowSize \in 1..MaxWindow
    /\ startHour \in 0..MaxStart
    /\ windowRows = <<>>
    /\ startMax = MaxStart
    /\ costUnitMode = "total"
    /\ costChart = NoChart
    /\ rows = <<>>
    /\ scenarios = <<>>
    /\ currentScenario = ""
    /\ summary = NullSummary
    /\ costRows = <<>>
    /\ assumptionsRows = <<>>
    /\ comparisonSummaries = <<>>
    /\ comparisonLoadFailures = 0
    /\ useApiBackend = FALSE
    /\ selectValue = ""
    /\ loads = <<>>
    /\ tasks = <<>>
    /\ cmpState = "idle"
    /\ errorShown = FALSE
    /\ staticError = ""
    /\ payload = NoPayload

\* renderWindow()
renderWindow ==
    /\ pc = "window"
    /\ windowRows' = WindowRows(hourly, windowSize, startHour)
    /\ pc' = "windowed"
    /\ UNCHANGED <<rows, scenarios, dataVars, cmpVars, useApiBackend,
                   selectValue, loads, errorShown, staticError, payload,
                   windowSize, startHour, startMax, costVars>>

NextWindow == renderWindow

SpecWindow == InitWindow /\ [][NextWindow]_vars

----------------------------------------------------------------------------
(* The comparison fan-out on its own: main() has started it on a catalog of
   any size, in either backend mode; the first load is still out *)

\* base and the batch runner's scenarios; the static discovery leaves no
\* label empty, an API descriptor may come without one
BatchIds == <<"base", "nf70", "nf80", "nf90", "nf95", "nf99">>
BatchCatalog(n, api) ==
    [i \in 1..n |->
        [id |-> BatchIds[i],
         label |-> IF i = 1 THEN "Base case"
                   ELSE IF api /\ i % 2 = 0 THEN "" ELSE BatchIds[i],
         source |-> IF api THEN "api" ELSE IF i = 1 THEN "static_base" ELSE "static_index"]]

InitCompare ==
    \E n \in 1..MaxCatalog, api \in BOOLEAN :
        /\ pc = "loading"
        /\ scenarios = BatchCatalog(n, api)
        /\ useApiBackend = api
        /\ currentScenario = IF n = 1 THEN "base" ELSE "nf70"
        /\ selectValue = currentScenario
        /\ loads = <<NewLoad(currentScenario)>>
        /\ tasks = [i \in 1..n |-> PendingTask]
        /\ cmpState = "running"
        /\ rows = <<>>
        /\ summary = NullSummary
        /\ hourly = <<>>
        /\ costRows = <<>>
        /\ assumptionsRows = <<>>
        /\ comparisonSummaries = <<>>
        /\ comparisonLoadFailures = 0
        /\ errorShown = FALSE
        /\ staticError = ""
        /\ payload = NoPayload
        /\ windowSize = MaxWindow
        /\ startHour = 0
        /\ windowRows = <<>>
        /\ startMax = 0
        /\ costUnitMode = "total"
        /\ costChart = NoChart

NextCompare ==
    \/ \E i \in 1..Len(tasks), reported \in Ids \cup {""} : TaskResolve(i, reported)
    \/ \E i \in 1..Len(tasks) : TaskReject(i)
    \/ Assemble

SpecCompare == InitCompare /\ [][NextCompare]_vars

----------------------------------------------------------------------------
(* The daily rollup on its own: the full-year window over hourly rows of
   several calendar days, a day possibly coming back after another *)

Digit == <<"0", "1", "2", "3", "4", "5", "6", "7", "8", "9">>

\* the timestamp "2024-01-0d hh:00" of hour h of day d
Stamp(d, h) ==
    <<"2", "0", "2", "4", "-", "0", "1", "-", "0", Digit[d + 1], " ",
      Digit[(h \div 10) + 1], Digit[(h % 10) + 1], ":", "0", "0">>

\* row i of a dispatch file with r rows per day over nd days; with sparse,
\* every other row has no unserved_mwh member
DispatchRow(i, r, nd, sparse) ==
    [key \in (DAILY_SUM_KEYS \cup {"timestamp", "battery_soc_mwh"})
                \ (IF sparse /\ i % 2 = 0 THEN {"unserved_mwh"} ELSE {}) |->
        CASE key = "timestamp" -> Stamp((((i - 1) \div r) % nd) + 1, (i - 1) % 24)
          [] key = "demand_mwh" -> i
          [] key = "battery_net_mwh" -> 2 - (i % 5)
          [] key = "battery_charge_mwh" -> i % 2
          [] key = "battery_discharge_mwh" -> (i + 1) % 2
          [] key = "unserved_mwh" -> i % 3
          [] key = "battery_soc_mwh" -> (7 * i) % 11
          [] OTHER -> (i * i) % 4]

DispatchRows(n, r, nd, sparse) == [i \in 1..n |-> DispatchRow(i, r, nd, sparse)]

InitDaily ==
    /\ pc = "window"
    /\ hourly \in {DispatchRows(n, r, nd, sparse) :
                      n \in 0..MaxDaily, r \in 1..MaxRun, nd \in 1..MaxDays,
                      sparse \in BOOLEAN}
    /\ windowSize = FullYear
    /\ startHour = 0
    /\ windowRows = <<>>
    /\ startMax = 0
    /\ costUnitMode = "total"
    /\ costChart = NoChart
    /\ rows = <<>>
    /\ scenarios = <<>>
    /\ currentScenario = ""
    /\ summary = NullSummary
    /\ costRows = <<>>
    /\ assumptionsRows = <<>>
    /\ comparisonSummaries = <<>>
    /\ comparisonLoadFailures = 0
    /\ useApiBackend = FALSE
    /\ selectValue = ""
    /\ loads = <<>>
    /\ tasks = <<>>
    /\ cmpState = "idle"
    /\ errorShown = FALSE
    /\ staticError = ""
    /\ payload = NoPayload

NextDaily == renderWindow

SpecDaily == InitDaily /\ [][NextDaily]_vars

----------------------------------------------------------------------------
(* The cost waterfall on its own: the dashboard is up on a scenario with any
   cost rows and summary figures, and the user switches the unit mode *)

CostValues == {Rat(0 - 1, 2), Rat(1, 5), Rat(3, 10), Rat(100000, 1)}
CostRowKinds ==
    {[technology |-> "solar", component |-> "capex_annualized"],
     [technology |-> "coal", component |-> "var_om"],
     [technology |-> "system", component |-> "unserved_penalty"]}
DetailedRows ==
    {[technology |-> k.technology, component |-> k.component, cost_usd |-> v] :
        k \in CostRowKinds, v \in CostValues}

\* served_energy_mwh and total_demand_mwh of the summary
EnergyCases ==
    {[served_energy_mwh |-> 0, total_demand_mwh |-> 0],
     [served_energy_mwh |-> 0, total_demand_mwh |-> 1200],
     [served_energy_mwh |-> 1000, total_demand_mwh |-> 1200]}

CostSummary(e) ==
    [load |-> 1, scenario_id |-> "base",
     served_energy_mwh |-> e.served_energy_mwh,
     total_demand_mwh |-> e.total_demand_mwh]

InitCost ==
    /\ pc = "done"
    /\ scenarios = <<BaseRow>>
    /\ currentScenario = "base"
    /\ selectValue = "base"
    /\ summary \in {CostSummary(e) : e \in EnergyCases}
    /\ costRows \in SeqsUpTo(DetailedRows, MaxCostRows)
    /\ costUnitMode = "total"
    /\ costChart = renderCostBreakdown(NoChart, summary, costRows, costUnitMode)
    /\ loads = <<[id |-> "base", state |-> "rendered", got |-> {}, absent |-> FALSE]>>
    /\ tasks = <<TaskRowStatic(1, BaseRow, "")>>
    /\ cmpState = "done"
    /\ comparisonSummaries = tasks
    /\ comparisonLoadFailures = 0
    /\ hourly = <<>>
    /\ assumptionsRows = <<>>
    /\ rows = <<>>
    /\ useApiBackend = FALSE
    /\ errorShown = FALSE
    /\ staticError = ""
    /\ payload = NoPayload
    /\ windowSize = MaxWindow
    /\ startHour = 0
    /\ windowRows = <<>>
    /\ startMax = 0

NextCost == \E mode \in {"total", "per_mwh"} : CostModeChange(mode)

SpecCost == InitCost /\ [][NextCost]_vars

----------------------------------------------------------------------------
(* The window controls in a session: static catalog [base, nf70], main() has
   set up the controls and started the first load and the comparison
   fan-out; the user switches scenarios, changes the window size and moves
   the start slider *)

WindowSizes == {MinWindow, MaxWindow}

InitSlider ==
    /\ pc = "loading"
    /\ scenarios = BatchCatalog(2, FALSE)
    /\ useApiBackend = FALSE
    /\ currentScenario = DefaultScenario(scenarios)
    /\ selectValue = currentScenario
    /\ loads = <<NewLoad(currentScenario)>>
    /\ tasks = [i \in 1..Len(scenarios) |-> PendingTask]
    /\ cmpState = "running"
    /\ rows = <<>>
    /\ summary = NullSummary
    /\ hourly = <<>>
    /\ costRows = <<>>
    /\ assumptionsRows = <<>>
    /\ comparisonSummaries = <<>>
    /\ comparisonLoadFailures = 0
    /\ errorShown = FALSE
    /\ staticError = ""
    /\ payload = NoPayload
    /\ windowSize \in WindowSizes
    /\ startHour = 0
    /\ windowRows = <<>>
    /\ startMax = 0
    /\ costUnitMode = "total"
    /\ costChart = NoChart

NextSlider ==
    \/ \E k \in 1..Len(loads), kind \in Kinds, status \in Statuses : Respond(k, kind, status)
    \/ \E k \in 1..Len(loads), n \in 0..MaxSeries : Publish(k, "", n, FALSE)
    \/ \E k \in 1..Len(loads) : Render(k)
    \/ MainRender
    \/ \E id \in Ids : Change(id)
    \/ \E i \in 1..Len(tasks) : TaskResolve(i, "")
    \/ \E i \in 1..Len(tasks) : TaskReject(i)
    \/ Assemble
    \/ \E size \in WindowSizes : WindowSizeChange(size)
    \/ \E value \in 0..MaxSeries : StartInput(value)

SpecSlider == InitSlider /\ [][NextSlider]_vars

----------------------------------------------------------------------------
(* Properties *)

Completed(k) == loads[k].state \in {"published", "rendered"}

\* the four current cells hold what load k handed over
FromLoad(k) ==
    /\ summary.load = k
    /\ costRows = CostPayload(k)
    /\ \A i \in 1..Len(hourly) : hourly[i].load = k
    /\ \A i \in 1..Len(assumptionsRows) : assumptionsRows[i].load = k

NothingPublished ==
    /\ summary = NullSummary
    /\ hourly = <<>>
    /\ costRows = <<>>
    /\ assumptionsRows = <<>>

\* C1: stale-load guard. Once every initiated load has completed, the
\* published current data is that of the load initiated last, never that of
\* an earlier one.
C1_LastInitiatedWins ==
    (Len(loads) >= 2 /\ \A k \in 1..Len(loads) : Completed(k))
        => /\ FromLoad(Len(loads))
           /\ ~useApiBackend => currentScenario = loads[Len(loads)].id

\* C2: no torn publication. In every state the current summary, hourly rows,
\* cost rows and assumption rows are those of one and the same completed
\* load (or all still the initial ones).
C2_NoTornPublication ==
    \/ NothingPublished
    \/ \E k \in 1..Len(loads) : Completed(k) /\ FromLoad(k)

\* data of a completed load is current while another load has some, not all,
\* of its retrievals resolved
C2_Witness ==
    \E k, j \in 1..Len(loads) :
        /\ Completed(k) /\ FromLoad(k)
        /\ hourly # <<>> /\ assumptionsRows # <<>>
        /\ loads[j].state = "pending"
        /\ loads[j].got \notin {{}, Kinds}

\* C3: a load one of whose retrievals fails changes none of currentScenario,
\* summary, hourly, costRows, assumptionsRows: neither the resolution of its
\* other retrievals nor its failure writes them, and the failure is shown
\* through the error presentation.
C3_FailedLoadLeavesData ==
    [][\A k \in 1..Len(loads) :
          /\ (loads[k].state = "pending" /\ loads'[k].state = "failed")
                => (UNCHANGED dataVars /\ errorShown')
          /\ (loads'[k].state = "pending" /\ loads'[k].got # loads[k].got)
                => UNCHANGED dataVars]_vars

\* a switch failed after some of its retrievals had resolved, and the data
\* of the first load is still current
C3_Witness ==
    /\ Len(loads) >= 2
    /\ loads[2].state = "failed"
    /\ errorShown
    /\ Completed(1) /\ FromLoad(1)
    /\ hourly # <<>>
    /\ currentScenario # loads[2].id

\* C4: the comparison fan-out never fails as a whole. For every catalog and
\* every subset of rejected retrievals it completes without reaching the
\* error presentation; comparisonSummaries then holds exactly one row per
\* catalog entry whose retrieval was fulfilled, comparisonLoadFailures is the
\* number of rejected ones, and the two add up to the size of the catalog.
C4_ComparisonNeverFails ==
    /\ ~errorShown /\ pc = "loading"
    /\ cmpState = "done" =>
          /\ Len(comparisonSummaries) + comparisonLoadFailures = Len(scenarios)
          /\ comparisonLoadFailures =
                Cardinality({i \in 1..Len(tasks) : tasks[i].status = "rejected"})
          /\ \A i \in 1..Len(scenarios) :
                Cardinality({j \in 1..Len(comparisonSummaries) :
                                comparisonSummaries[j].request = i})
                    = IF tasks[i].status = "fulfilled" THEN 1 ELSE 0

\* 5 scenarios, one retrieval rejected: 4 rows and a failure count of 1
C4_Witness ==
    /\ cmpState = "done"
    /\ Len(scenarios) = 5
    /\ comparisonLoadFailures = 1
    /\ Len(comparisonSummaries) = 4

\* C5 as stated: the API catalog endpoint is asked only when static discovery
\* ended with an empty deduplicated list.
C5_FallbackOnlyWhenEmpty ==
    pc = "api" => staticError = NoStaticOutputs

\* C5 as amended: the API catalog endpoint is asked exactly when static
\* discovery raises, whatever it raises (empty list, malformed document,
\* failed fetch); static discovery never ends the session by itself.
C5_FallbackOnAnyStaticFailure ==
    [][(pc = "base" \/ pc = "index") =>
          (/\ pc' # "failed"
           /\ (pc' = "api") <=> (staticError' # "")
           /\ (pc' = "api") \/ ~(errorShown'))]_vars

\* the API is being asked after a malformed static document
C5_Witness ==
    /\ pc = "api"
    /\ staticError = "malformed"
    /\ ~errorShown

\* C6: when the resolver has finished without a scenario, the session is in
\* the error presentation, the catalog is empty, no scenario load and no
\* comparison fan-out was started, nothing is published, and nothing more
\* can happen.
C6_EmptyCatalogIsFatal ==
    (pc \in {"loading", "done", "failed"} /\ scenarios = <<>>) =>
        /\ pc = "failed"
        /\ errorShown
        /\ loads = <<>>
        /\ tasks = <<>>
        /\ cmpState = "idle"
        /\ comparisonSummaries = <<>>
        /\ currentScenario = ""
        /\ NothingPublished
        /\ ~ENABLED Next

\* the API answered with an empty catalog after static discovery found nothing
C6_Witness ==
    /\ pc = "failed"
    /\ scenarios = <<>>
    /\ useApiBackend

FirstIndex(rs, id) == CHOOSE i \in 1..Len(rs) : rs[i].id = id /\ \A h \in 1..(i - 1) : rs[h].id # id

\* C7: dedup step. The list the static discovery returns holds every
\* non-empty id of the discovered rows exactly once, each entry is the first
\* discovered row with its id, and the entries are in discovery order.
C7_DedupFirstOccurrence ==
    [][pc = "dedup" =>
          LET out == IF pc' = "list" THEN payload'.scenarios ELSE <<>>
          IN  /\ \A i \in 1..Len(rows) :
                    rows[i].id # "" => \E j \in 1..Len(out) : out[j].id = rows[i].id
              /\ \A j, k \in 1..Len(out) : j # k => out[j].id # out[k].id
              /\ \A j \in 1..Len(out) :
                    /\ out[j].id # ""
                    /\ \E i \in 1..Len(rows) : rows[i].id = out[j].id
                    /\ out[j] = rows[FirstIndex(rows, out[j].id)]
              /\ \A j, k \in 1..Len(out) :
                    j < k => FirstIndex(rows, out[j].id) < FirstIndex(rows, out[k].id)]_vars

\* four rows, the third repeating the id of the first under another label
C7_Witness ==
    /\ pc = "list"
    /\ Len(rows) = 4
    /\ rows[1].id = rows[3].id
    /\ rows[1].label # rows[3].label
    /\ rows[2].id \notin {"", rows[1].id}
    /\ Len(payload.scenarios) = 2
    /\ payload.scenarios[1] = rows[1]

\* d is the first entry of cat that is not "base", the first entry when
\* there is none
FirstNonBaseElseFirst(cat, d) ==
    \E i \in 1..Len(cat) :
        /\ cat[i].id = d
        /\ IF \E j \in 1..Len(cat) : cat[j].id # "base"
           THEN d # "base" /\ \A j \in 1..(i - 1) : cat[j].id = "base"
           ELSE i = 1

\* C8 as stated: for every resolved catalog the scenario loaded first is the
\* first non-base entry, the first entry when there is none.
C8_DefaultIsFirstNonBase ==
    loads # <<>> => FirstNonBaseElseFirst(scenarios, loads[1].id)

\* C8 as amended: that holds of a catalog discovered from static files; of an
\* API catalog the scenario loaded first is the payload's default_scenario
\* when it carries one, and the first entry otherwise.
C8_DefaultScenarioByBackend ==
    [][(pc = "list" /\ pc' = "loading") =>
          IF useApiBackend
          THEN currentScenario' =
                  IF payload.default_scenario # "" THEN payload.default_scenario
                  ELSE payload.scenarios[1].id
          ELSE FirstNonBaseElseFirst(scenarios', currentScenario')]_vars

\* a static catalog that starts with base: the first load is for the entry after it
C8_Witness ==
    /\ pc = "loading"
    /\ ~useApiBackend
    /\ Len(scenarios) = 2
    /\ scenarios[1].id = "base"
    /\ loads[1].id = scenarios[2].id

\* C9: the backend mode is API exactly when the API branch produced the
\* catalog, it is settled before any scenario load or comparison retrieval
\* starts, and nothing changes it afterwards.
C9_BackendModeFixed ==
    /\ []((loads # <<>> \/ cmpState # "idle") => pc \in {"loading", "done", "failed"})
    /\ [][/\ (pc = "index" /\ pc' = "list") => ~useApiBackend'
          /\ (pc = "api" /\ pc' = "list") => useApiBackend'
          /\ pc \in {"list", "loading", "done", "failed"}
                => useApiBackend' = useApiBackend]_vars

\* API mode, a switch loaded and rendered, the comparison assembled
C9_Witness ==
    /\ useApiBackend
    /\ Len(loads) = 2
    /\ Completed(1)
    /\ loads[2].state = "rendered"
    /\ cmpState = "done"

\* C10: sub-range view. getWindowedRows returns the rows at (0-based)
\* indices S .. min(L, S+W)-1 in order: max(0, min(L, S+W) - S) rows, never
\* more than W, none of an empty sequence.
C10_SubRangeView ==
    pc = "windowed" =>
        LET L == Len(hourly)
            n == Max(0, Min(L, startHour + windowSize) - startHour)
        IN  /\ Len(windowRows) = n
            /\ n <= windowSize
            /\ \A i \in 1..n : windowRows[i] = hourly[startHour + i]
            /\ L = 0 => windowRows = <<>>

\* 100 rows, window 10, start 95: 5 rows
C10_Witness ==
    /\ pc = "windowed"
    /\ Len(hourly) = 100
    /\ windowSize = 10
    /\ startHour = 95
    /\ Len(windowRows) = 5

\* the indices at which a maximal run of rows with one day key starts
RunStarts(h) == {i \in 1..Len(h) : i = 1 \/ DayKey(h[i]) # DayKey(h[i - 1])}

\* the last index of the run that starts at b
RunEnd(h, b) ==
    CHOOSE e \in b..Len(h) :
        /\ \A i \in b..e : DayKey(h[i]) = DayKey(h[b])
        /\ e = Len(h) \/ DayKey(h[e + 1]) # DayKey(h[b])

RECURSIVE SumOver(_, _, _, _)
SumOver(h, key, lo, hi) ==
    IF lo > hi THEN 0
    ELSE (IF key \in DOMAIN h[hi] THEN h[hi][key] ELSE 0) + SumOver(h, key, lo, hi - 1)

\* the j-th smallest element of a set of integers
RECURSIVE Nth(_, _)
Nth(S, j) ==
    LET m == CHOOSE x \in S : \A y \in S : x <= y
    IN  IF j = 1 THEN m ELSE Nth(S \ {m}, j - 1)

\* C11: daily rollup. aggregateDaily emits one row per maximal run of
\* consecutive rows with the same 10-character timestamp prefix, in input
\* order; each emitted row carries that prefix, the sum over the run of every
\* flow quantity, and the battery_soc_mwh of the last row of the run; empty
\* input gives empty output.
C11_DailyRollup ==
    (pc = "windowed" /\ windowSize = FullYear) =>
        LET starts == RunStarts(hourly)
        IN  /\ Len(windowRows) = Cardinality(starts)
            /\ hourly = <<>> => windowRows = <<>>
            /\ \A j \in 1..Len(windowRows) :
                  LET b == Nth(starts, j)
                      e == RunEnd(hourly, b)
                  IN  /\ windowRows[j].timestamp = DayKey(hourly[b])
                      /\ \A key \in DAILY_SUM_KEYS :
                            windowRows[j][key] = SumOver(hourly, key, b, e)
                      /\ windowRows[j].battery_soc_mwh = hourly[e].battery_soc_mwh

\* 48 hourly rows over two days: 2 rows, the demand of each the sum of its 24
\* hours, the state of charge that of the 24th hour
C11_Witness ==
    /\ pc = "windowed"
    /\ Len(hourly) = 48
    /\ Len(windowRows) = 2
    /\ windowRows[1].demand_mwh = 300
    /\ windowRows[2].demand_mwh = 876
    /\ windowRows[1].battery_soc_mwh = hourly[24].battery_soc_mwh
    /\ windowRows[2].battery_soc_mwh = hourly[48].battery_soc_mwh
    /\ windowRows[1].battery_soc_mwh # windowRows[2].battery_soc_mwh

\* the sum of cost_usd over the rows with index in S
RECURSIVE SumCosts(_, _)
SumCosts(rs, S) ==
    IF S = {} THEN Zero
    ELSE LET i == CHOOSE j \in S : TRUE
         IN  RatAdd(rs[i].cost_usd, SumCosts(rs, S \ {i}))

\* the cost rows a step label stands for
LabelRows(rs, label) ==
    IF label = <<"Unserved Penalty">>
    THEN {i \in 1..Len(rs) : rs[i].component = "unserved_penalty"}
    ELSE {i \in 1..Len(rs) :
            /\ rs[i].technology \in DOMAIN techLabel
            /\ rs[i].component \in DOMAIN componentLabel
            /\ <<techLabel[rs[i].technology], componentLabel[rs[i].component]>> = label}

PairLabels == {<<techLabel[t], componentLabel[c]>> : t \in DOMAIN techLabel, c \in DOMAIN componentLabel}

StepCount(chart) == Len(chart.x) - 1
HasStep(chart, label) == \E i \in 1..StepCount(chart) : chart.x[i] = label

RECURSIVE SumY(_, _)
SumY(chart, n) == IF n = 0 THEN Zero ELSE RatAdd(chart.y[n], SumY(chart, n - 1))

\* C12: cost waterfall, detailed schema. A technology/component pair of the
\* display order, and likewise the unserved-penalty step, is a step of the
\* chart exactly when the absolute value of the sum of its cost rows is at
\* least 0.5, and then once, with that sum as its value where amounts are
\* absolute; the last step is the Total, its value the sum of the values of
\* the steps before it.
C12_WaterfallSteps ==
    costChart.type = "waterfall" =>
        LET n == StepCount(costChart)
        IN  /\ \A label \in PairLabels \cup {<<"Unserved Penalty">>} :
                  HasStep(costChart, label)
                      <=> ~RatLess(RatAbs(SumCosts(costRows, LabelRows(costRows, label))), Half)
            /\ \A i, j \in 1..n : i # j => costChart.x[i] # costChart.x[j]
            /\ \A i \in 1..n :
                  /\ costChart.x[i] \in PairLabels \cup {<<"Unserved Penalty">>}
                  /\ costUnitMode = "total" =>
                        costChart.y[i] = SumCosts(costRows, LabelRows(costRows, costChart.x[i]))
            /\ costChart.x[n + 1] = <<"Total System Cost">>
            /\ costChart.y[n + 1] = SumY(costChart, n)

\* two solar capex rows of 0.2 and 0.3 make a step of exactly 0.5, a coal
\* row of 0.2 makes none; amounts absolute, the mode switched once
C12_Witness ==
    /\ costUnitMode = "per_mwh"
    /\ summary.total_demand_mwh = 0
    /\ Len(costRows) = 3
    /\ LabelRows(costRows, <<"Coal", "Var O&M">>) # {}
    /\ costChart.type = "waterfall"
    /\ costChart.x = <<<<"Solar", "CAPEX (annualized)">>, <<"Total System Cost">>>>
    /\ costChart.y = <<Half, Half>>

\* C13: per-unit-served scaling. The values of the chart are those of total
\* mode divided by served energy exactly when per-unit mode is selected and
\* served energy is positive; otherwise, and so whenever served energy is
\* zero, they are the absolute values, whatever the total demand.
C13_PerUnitScaling ==
    costChart.type = "waterfall" =>
        LET served == summary.served_energy_mwh
            absolute == renderCostBreakdown(NoChart, summary, costRows, "total")
        IN  IF costUnitMode = "per_mwh" /\ served > 0
            THEN \A i \in 1..Len(costChart.y) :
                    RatMul(costChart.y[i], Rat(served, 1)) = absolute.y[i]
            ELSE costChart.y = absolute.y

\* C16: cost waterfall, detailed schema. The base of the first step is 0,
\* the base of every further step is the base of the step before it plus
\* that step's value, the base of the Total is 0 and its value is the base
\* plus the value of the last step; one scale factor turns the sum of the
\* cost rows of every step into its value.
C16_WaterfallBases ==
    costChart.type = "waterfall" =>
        LET n == StepCount(costChart)
            divisors == {1} \cup ({summary.served_energy_mwh, summary.total_demand_mwh} \ {0})
        IN  /\ Len(costChart.y) = n + 1 /\ Len(costChart.base) = n + 1
            /\ n > 0 => costChart.base[1] = Zero
            /\ \A i \in 1..(n - 1) :
                  costChart.base[i + 1] = RatAdd(costChart.base[i], costChart.y[i])
            /\ costChart.base[n + 1] = Zero
            /\ costChart.y[n + 1] =
                  IF n = 0 THEN Zero ELSE RatAdd(costChart.base[n], costChart.y[n])
            /\ \E d \in divisors :
                  \A i \in 1..n :
                      RatMul(costChart.y[i], Rat(d, 1)) =
                          SumCosts(costRows, LabelRows(costRows, costChart.x[i]))

\* per-unit mode, served energy 1000, two steps of 100000: values 100, 100
\* and a Total of 200, bases 0, 100 and 0
C16_Witness ==
    /\ costUnitMode = "per_mwh"
    /\ summary.served_energy_mwh = 1000
    /\ costChart.type = "waterfall"
    /\ costChart.y = <<Rat(100, 1), Rat(100, 1), Rat(200, 1)>>
    /\ costChart.base = <<Zero, Rat(100, 1), Zero>>

\* C14: static-file mode. A 404 on the assumptions file does not fail the
\* load: the retrieval resolves, and the load publishes an empty assumptions
\* sequence together with the summary, hourly and cost rows it retrieved. Any
\* failure of the summary, hourly or cost retrieval, a 404 included, and any
\* other failure of the assumptions retrieval, fails the load and leaves the
\* published data alone.
C14_OptionalAssumptions ==
    [][~useApiBackend =>
          \A k \in 1..Len(loads) :
              /\ Respond(k, "assumptions", "notfound") =>
                    /\ loads'[k].state = "pending"
                    /\ "assumptions" \in loads'[k].got
                    /\ errorShown' = errorShown
              /\ \A kind \in Kinds, status \in Statuses \ {"ok"} :
                    (Respond(k, kind, status) /\ <<kind, status>> # <<"assumptions", "notfound">>)
                        => /\ loads'[k].state = "failed"
                           /\ errorShown'
                           /\ UNCHANGED dataVars
              /\ (loads[k].state = "pending" /\ loads'[k].state = "published" /\ loads[k].absent)
                    => /\ assumptionsRows' = <<>>
                       /\ summary'.load = k
                       /\ costRows' = CostPayload(k)
                       /\ \A i \in 1..Len(hourly') : hourly'[i].load = k]_vars

\* a static load whose assumptions file was missing has published its hourly
\* rows and no assumptions
C14_Witness ==
    /\ ~useApiBackend
    /\ \E k \in 1..Len(loads) :
          /\ Completed(k)
          /\ loads[k].absent
          /\ FromLoad(k)
          /\ hourly # <<>>
          /\ assumptionsRows = <<>>
    /\ ~errorShown

\* the rows of comparisonSummaries come from distinct catalog entries
DistinctOrigins ==
    \A j, k \in 1..Len(comparisonSummaries) :
        j # k => comparisonSummaries[j].request # comparisonSummaries[k].request

\* C15 as stated: in both backend modes every row of comparisonSummaries
\* carries the id and the label of the catalog entry whose retrieval
\* produced it, and no two rows come from the same entry.
C15_RowsTaggedByEntry ==
    cmpState = "done" =>
        /\ DistinctOrigins
        /\ \A j \in 1..Len(comparisonSummaries) :
              LET row == comparisonSummaries[j]
                  e == scenarios[row.request]
              IN  row.scenario_id = e.id /\ row.scenario_label = e.label

\* C15 as amended: no two rows come from the same entry; in static mode a
\* row carries the id and the label of its entry; in API mode its
\* scenario_id is the one the summary payload reports, the id of its entry
\* when the payload reports none, and its label is the label of its entry,
\* or its scenario_id when the entry has no label.
C15_RowsTaggedByBackend ==
    /\ [](cmpState = "done" =>
            /\ DistinctOrigins
            /\ comparisonSummaries = Fulfilled(tasks)
            /\ \A j \in 1..Len(comparisonSummaries) :
                  LET row == comparisonSummaries[j]
                      e == scenarios[row.request]
                  IN  /\ ~useApiBackend =>
                            row.scenario_id = e.id /\ row.scenario_label = e.label
                      /\ useApiBackend =>
                            row.scenario_label =
                                IF e.label # "" THEN e.label ELSE row.scenario_id)
    /\ [][\A i \in 1..Len(tasks), reported \in Ids \cup {""} :
              TaskResolve(i, reported) =>
                  /\ tasks'[i].request = i
                  /\ tasks'[i].scenario_id =
                        IF useApiBackend /\ reported # "" THEN reported
                        ELSE scenarios[i].id]_vars

\* API mode, the fan-out assembled: a row whose payload reported another id
\* than that of its entry, and a row of an entry without label
C15_Witness ==
    /\ cmpState = "done"
    /\ useApiBackend
    /\ \E j \in 1..Len(comparisonSummaries) :
          comparisonSummaries[j].scenario_id
              # scenarios[comparisonSummaries[j].request].id
    /\ \E j \in 1..Len(comparisonSummaries) :
          /\ scenarios[comparisonSummaries[j].request].label = ""
          /\ comparisonSummaries[j].scenario_label = comparisonSummaries[j].scenario_id

\* C17: in API mode, after a successful load the current scenario id is the
\* scenario id the summary payload reported, the requested id when it
\* reported none; in either mode the current scenario id and the scenario_id
\* of the published summary are equal.
C17_CurrentMatchesSummary ==
    summary # NullSummary =>
        /\ useApiBackend =>
              currentScenario = Or(summary.scenario_id, loads[summary.load].id)
        /\ currentScenario = summary.scenario_id

\* C18: at every render of the window (renderAll, a window-size change, a
\* start-slider input) the start offset is at most max(0, hourly length -
\* window size), and the rendered view has min(window size, hourly length)
\* rows.
C18_StartClamped ==
    [][(windowRows' # windowRows \/ startHour' # startHour \/ windowSize' # windowSize) =>
          /\ startHour' <= Max(0, Len(hourly') - windowSize')
          /\ Len(windowRows') = Min(windowSize', Len(hourly'))]_vars

====
